---- MODULE Spec2Model ----
(***************************************************************************)
(* Model of dashboard.py: the Streamlit script that loads a debt schedule  *)
(* (load_data), computes the business figures and renders the dashboard.   *)
(*                                                                         *)
(* Representation                                                          *)
(*   - a column label is a sequence of tokens (words and " "); the         *)
(*     substring test  'kw' in c  is token membership;                     *)
(*   - a money text is a sequence of characters;                           *)
(*   - a float64 value is <<v>> (v an integer count of 10^-MaxLen units)   *)
(*     or <<>> for NaN; a datetime64 value is <<d>> or <<>> for NaT;       *)
(*   - a data-frame row keeps its pandas index in idx.                     *)
(***************************************************************************)
EXTENDS Integers, Sequences, FiniteSets, TLC

VARIABLES pc, source, columns, rows, col, hoje, fig, exc, ui

vars == <<pc, source, columns, rows, col, hoje, fig, exc, ui>>

\* ------------------------------------------------------------- bounds
MaxCols == 4

MaxRows == 3

MaxLen == 3

\* ------------------------------------------------------------ helpers
RECURSIVE Pow10(_)
Pow10(n) == IF n = 0 THEN 1 ELSE 10 * Pow10(n - 1)

\* One unit of money, counted in 10^-MaxLen: every text of at most MaxLen
\* characters has an exact value.
Scale == Pow10(MaxLen)

NaN == <<>>

NaT == <<>>

Range(s) == {s[i] : i \in 1..Len(s)}

\* ------------------------------------------------------- raw cells
NumCell(n) == [kind |-> "num", v |-> n, s |-> <<>>]

NaNCell == [kind |-> "nan", v |-> 0, s |-> <<>>]

StrCell(t) == [kind |-> "str", v |-> 0, s |-> t]

DateCell(d) == [kind |-> "date", v |-> d, s |-> <<>>]

\* ------------------------------------------------- column labels (l.72)
Lower(t) ==
    CASE t = "Vencimento" -> "vencimento"
      [] t = "Valor" -> "valor"
      [] t = "Pago" -> "pago"
      [] OTHER -> t

RECURSIVE LStrip(_)
LStrip(c) == IF c # <<>> /\ c[1] = " " THEN LStrip(Tail(c)) ELSE c

RECURSIVE RStrip(_)
RStrip(c) ==
    IF c # <<>> /\ c[Len(c)] = " " THEN RStrip(SubSeq(c, 1, Len(c) - 1)) ELSE c

\* str.strip().lower() of one label.
StripLower(c) == [i \in 1..Len(RStrip(LStrip(c))) |-> Lower(RStrip(LStrip(c))[i])]

\* df.columns.astype(str).str.strip().str.lower()
NormalizeColumns(labels) == [i \in 1..Len(labels) |-> StripLower(labels[i])]

\* 'kw' in c
Contains(c, kw) == \E i \in 1..Len(c) : c[i] = kw

\* next(iter(matches), default): the first match, or the default.
FirstOr(matches, default) == IF matches = <<>> THEN default ELSE matches[1]

IsData(c) == Contains(c, "vencimento") \/ Contains(c, "data")

IsValor(c) == Contains(c, "valor") /\ ~Contains(c, "pago")

IsPago(c) == Contains(c, "pago") \/ Contains(c, "quitado")

IsStatus(c) == Contains(c, "status")

IsHist(c) == Contains(c, "hist") \/ Contains(c, "obs")

\* The five col_* locals of load_data.
Mapeamento(cs) ==
    [data |-> FirstOr(SelectSeq(cs, IsData), <<"data">>),
     valor |-> FirstOr(SelectSeq(cs, IsValor), <<"valor">>),
     pago |-> FirstOr(SelectSeq(cs, IsPago), <<"valor", " ", "pago">>),
     status |-> FirstOr(SelectSeq(cs, IsStatus), <<"status">>),
     hist |-> FirstOr(SelectSeq(cs, IsHist), <<"historico">>)]

\* df.rename(columns={col_data: 'Data', ...}): in the dict literal a later
\* entry with the same key replaces an earlier one.
RenameOne(m, c) ==
    IF c = m.hist THEN <<"Historico">>
    ELSE IF c = m.status THEN <<"Status">>
    ELSE IF c = m.pago THEN <<"Pago">>
    ELSE IF c = m.valor THEN <<"Valor">>
    ELSE IF c = m.data THEN <<"Data">>
    ELSE c

Rename(m, cs) == [i \in 1..Len(cs) |-> RenameOne(m, cs[i])]

HasColumn(cs, name) == \E i \in 1..Len(cs) : cs[i] = <<name>>

\* ----------------------------------------------- money parser (l.92-98)
\* x.replace('R$', ''): one left-to-right pass over non-overlapping matches.
RECURSIVE RemoveCurrency(_)
RemoveCurrency(s) ==
    IF s = <<>> THEN <<>>
    ELSE IF Len(s) >= 2 /\ s[1] = "R" /\ s[2] = "$" THEN RemoveCurrency(SubSeq(s, 3, Len(s)))
    ELSE <<s[1]>> \o RemoveCurrency(Tail(s))

\* x.replace('.', '')
RemoveDots(s) == SelectSeq(s, LAMBDA ch : ch # ".")

\* x.replace(',', '.')
CommaToDot(s) == [i \in 1..Len(s) |-> IF s[i] = "," THEN "." ELSE s[i]]

Digits == {"0", "1", "2", "3", "4", "5", "6", "7", "8", "9"}

DigitVal(ch) ==
    CASE ch = "0" -> 0 [] ch = "1" -> 1 [] ch = "2" -> 2 [] ch = "3" -> 3
      [] ch = "4" -> 4 [] ch = "5" -> 5 [] ch = "6" -> 6 [] ch = "7" -> 7
      [] ch = "8" -> 8 [] ch = "9" -> 9

RECURSIVE DigitsToInt(_)
DigitsToInt(s) ==
    IF s = <<>> THEN 0 ELSE 10 * DigitsToInt(SubSeq(s, 1, Len(s) - 1)) + DigitVal(s[Len(s)])

\* Number of characters after the decimal point (0 when there is none).
RECURSIVE FracLen(_)
FracLen(s) ==
    IF s = <<>> \/ ~("." \in Range(s)) THEN 0
    ELSE IF s[1] = "." THEN Len(s) - 1
    ELSE FracLen(Tail(s))

\* The numeric parse of pd.to_numeric(text, errors='coerce'): surrounding
\* blanks, an optional sign, digits with at most one decimal point and at
\* least one digit; anything else is coerced to NaN.
ParseText(s) ==
    LET t == RStrip(LStrip(s))
        neg == t # <<>> /\ t[1] = "-"
        body == IF neg THEN Tail(t) ELSE t
        digits == SelectSeq(body, LAMBDA ch : ch \in Digits)
        dots == SelectSeq(body, LAMBDA ch : ch = ".")
        wellFormed == /\ Len(digits) + Len(dots) = Len(body)
                      /\ Len(dots) <= 1
                      /\ Len(digits) >= 1
        magnitude == DigitsToInt(digits) * Pow10(MaxLen - FracLen(body))
    IN  IF wellFormed THEN <<IF neg THEN 0 - magnitude ELSE magnitude>> ELSE NaN

\* pd.to_numeric(x, errors='coerce') of one cell.
ToNumeric(x) ==
    CASE x.kind = "num" -> <<x.v * Scale>>
      [] x.kind = "nan" -> NaN
      [] x.kind = "str" -> ParseText(x.s)

\* def to_float(x)
to_float(x) ==
    IF x.kind = "str"
    THEN ToNumeric(StrCell(CommaToDot(RemoveDots(RemoveCurrency(x.s)))))
    ELSE ToNumeric(x)

\* The fill left out: NaN stays.
FillnaSkipped(x, d) == x

\* Series.fillna(d) on one value.
fillna(x, d) == IF x = NaN THEN d ELSE x

\* df[c].apply(to_float).fillna(0) on one cell.
CleanMoney(x) == fillna(to_float(x), <<0>>)

\* pd.to_datetime(cell, errors='coerce')
to_datetime(x) == IF x.kind = "date" THEN <<x.v>> ELSE NaT

\* ------------------------------------------------- float64 arithmetic
Sub(a, b) == IF a = NaN \/ b = NaN THEN NaN ELSE <<a[1] - b[1]>>

Gt(a, b) == a # NaN /\ b # NaN /\ a[1] > b[1]

\* Series.sum(): NaN entries are skipped.
RECURSIVE Sum(_)
Sum(xs) ==
    IF xs = <<>> THEN <<0>>
    ELSE IF xs[1] = NaN THEN Sum(Tail(xs))
    ELSE <<xs[1][1] + Sum(Tail(xs))[1]>>

Column(rs, f) == [i \in 1..Len(rs) |-> rs[i][f]]

\* ------------------------------------------------------ input files
\* Raw header cells, as a spreadsheet may carry them.
Labels ==
    {<<"Vencimento", " ">>, <<"data">>, <<"valor">>, <<"Valor", " ", "Pago">>,
     <<"pago">>, <<"valor", " ", "quitado">>, <<"quitado">>, <<"status">>, <<"obs">>}

\* Header rows of at most MaxCols pairwise different labels.
Headers ==
    {h \in UNION {[1..n -> Labels] : n \in 0..MaxCols} :
        \A i, j \in 1..Len(h) : i # j => h[i] # h[j]}

StandardHeader == <<<<"Vencimento", " ">>, <<"valor">>, <<"Valor", " ", "Pago">>, <<"status">>>>

Dates == {1, 2}

DateCells == {DateCell(d) : d \in Dates} \cup {StrCell(<<"N/A">>)}

ValorCells == {NumCell(2), StrCell(<<"-", "1">>)}

PagoCells == {NumCell(3), StrCell(<<"a">>)}

\* A row holds the cells found under the columns the mapping names as date,
\* amount, paid and history; a column that is absent leaves its cells unread.
RowsOver(dateCells, valorCells, pagoCells, n) ==
    UNION {[1..k -> [Data : dateCells, Valor : valorCells, Pago : pagoCells,
                     Historico : {NaNCell}]] : k \in 0..n}

SampleRows ==
    {<<[Data |-> DateCell(1), Valor |-> NumCell(2), Pago |-> StrCell(<<"1">>),
        Historico |-> NaNCell]>>}

\* Any header over one sample row, and the standard header over any rows.
Files ==
    {[labels |-> h, rows |-> r] : h \in Headers, r \in SampleRows}
        \cup {[labels |-> StandardHeader, rows |-> r] :
                r \in RowsOver(DateCells, ValorCells, PagoCells, MaxRows)}

Alphabet == {"R", "$", "1", ".", ",", "-", " ", "a"}

Texts == UNION {[1..n -> Alphabet] : n \in 0..MaxLen}

ParseCells == {StrCell(t) : t \in Texts} \cup {NaNCell, NumCell(1), NumCell(0 - 1)}

\* The standard header over two rows: any amount cell, then a plain row.
ParseFiles ==
    {[labels |-> StandardHeader,
      rows |-> <<[Data |-> DateCell(1), Valor |-> c, Pago |-> NumCell(1),
                  Historico |-> NaNCell],
                 [Data |-> DateCell(2), Valor |-> NumCell(2), Pago |-> NumCell(0),
                  Historico |-> NaNCell]>>] : c \in ParseCells}

\* ------------------------------------------------------ data frame
\* pd.read_excel / pd.read_csv: the rows get the index 0, 1, ...
Frame(file) == [i \in 1..Len(file.rows) |->
                   [idx |-> i - 1, Data |-> file.rows[i].Data, Valor |-> file.rows[i].Valor,
                    Pago |-> file.rows[i].Pago, Historico |-> file.rows[i].Historico]]

NoFile == [labels |-> <<>>, rows |-> <<>>]

NoCol == [data |-> <<>>, valor |-> <<>>, pago |-> <<>>, status |-> <<>>, hist |-> <<>>]

NoExc == [type |-> "none", key |-> "", line |-> 0]

KeyError(name, line) == [type |-> "KeyError", key |-> name, line |-> line]

\* An exception nobody catches ends the script run; Streamlit shows it.
Raise(e) ==
    /\ pc' = "crashed"
    /\ exc' = e
    /\ ui' = Append(ui, "exception")

Init ==
    /\ pc = "read_excel"
    /\ source = NoFile
    /\ columns = <<>>
    /\ rows = <<>>
    /\ col = NoCol
    /\ hoje = 0
    /\ fig = <<>>
    /\ exc = NoExc
    /\ ui = <<>>

\* l.59-61: df = pd.read_excel(file_path)
ReadExcel(files) ==
    /\ pc = "read_excel"
    /\ \E readable \in BOOLEAN :
          IF readable
          THEN \E file \in files :
                  /\ source' = file
                  /\ columns' = file.labels
                  /\ rows' = Frame(file)
                  /\ pc' = "mapeamento"
          ELSE /\ pc' = "read_csv"
               /\ UNCHANGED <<source, columns, rows>>
    /\ UNCHANGED <<col, hoje, fig, exc, ui>>

\* l.62-68: the CSV fallback; st.error and st.stop when it fails too.
ReadCsv(files) ==
    /\ pc = "read_csv"
    /\ \E readable \in BOOLEAN :
          IF readable
          THEN \E file \in files :
                  /\ source' = file
                  /\ columns' = file.labels
                  /\ rows' = Frame(file)
                  /\ pc' = "mapeamento"
                  /\ UNCHANGED <<exc, ui>>
          ELSE /\ pc' = "stopped"
               /\ exc' = [type |-> "StopException", key |-> "", line |-> 68]
               /\ ui' = Append(ui, "st.error")
               /\ UNCHANGED <<source, columns, rows>>
    /\ UNCHANGED <<col, hoje, fig>>

\* l.72-88: clean the column names, map them, rename.
MapeamentoAutomatico ==
    /\ pc = "mapeamento"
    /\ col' = Mapeamento(NormalizeColumns(columns))
    /\ columns' = Rename(col', NormalizeColumns(columns))
    /\ pc' = "valor"
    /\ UNCHANGED <<source, rows, hoje, fig, exc, ui>>

\* df[name] = xs: the column replaced by a series of new values.
SetField(rs, name, xs) ==
    [i \in 1..Len(rs) |->
        [idx |-> rs[i].idx,
         Data |-> IF name = "Data" THEN xs[i] ELSE rs[i].Data,
         Valor |-> IF name = "Valor" THEN xs[i] ELSE rs[i].Valor,
         Pago |-> IF name = "Pago" THEN xs[i] ELSE rs[i].Pago,
         Historico |-> IF name = "Historico" THEN xs[i] ELSE rs[i].Historico]]

\* l.97: df['Valor'] = df['Valor'].apply(to_float).fillna(0)
TratamentoValor ==
    /\ pc = "valor"
    /\ IF HasColumn(columns, "Valor")
       THEN /\ rows' = SetField(rows, "Valor", [i \in 1..Len(rows) |-> CleanMoney(rows[i].Valor)])
            /\ pc' = "pago"
            /\ UNCHANGED <<exc, ui>>
       ELSE /\ Raise(KeyError("Valor", 97))
            /\ UNCHANGED rows
    /\ UNCHANGED <<source, columns, col, hoje, fig>>

\* l.98: df['Pago'] = df['Pago'].apply(to_float).fillna(0)
TratamentoPago ==
    /\ pc = "pago"
    /\ IF HasColumn(columns, "Pago")
       THEN /\ rows' = SetField(rows, "Pago", [i \in 1..Len(rows) |-> CleanMoney(rows[i].Pago)])
            /\ pc' = "datas"
            /\ UNCHANGED <<exc, ui>>
       ELSE /\ Raise(KeyError("Pago", 98))
            /\ UNCHANGED rows
    /\ UNCHANGED <<source, columns, col, hoje, fig>>

\* df.dropna(subset=['Data'])
dropna(rs) == SelectSeq(rs, LAMBDA r : r.Data # NaT)

IsSortedByData(rs) == \A i, j \in 1..Len(rs) : i < j => rs[i].Data[1] <= rs[j].Data[1]

\* The row orders that leave the frame as it is (a sort that does nothing).
Unsorted(rs) == {rs}

\* df.sort_values('Data'): the default sort is not stable, so rows of equal
\* date may come out in any order.
sort_values(rs) ==
    {[i \in 1..Len(rs) |-> rs[p[i]]] :
        p \in {q \in [1..Len(rs) -> 1..Len(rs)] :
                 /\ \A i, j \in 1..Len(rs) : i # j => q[i] # q[j]
                 /\ IsSortedByData([i \in 1..Len(rs) |-> rs[q[i]]])}}

\* l.101-102: parse the dates, drop the rows without one, sort by date.
Datas ==
    /\ pc = "datas"
    /\ IF HasColumn(columns, "Data")
       THEN /\ rows' \in sort_values(dropna(SetField(rows, "Data",
                                [i \in 1..Len(rows) |-> to_datetime(rows[i].Data)])))
            /\ pc' = "historico"
            /\ UNCHANGED <<exc, ui>>
       ELSE /\ Raise(KeyError("Data", 101))
            /\ UNCHANGED rows
    /\ UNCHANGED <<source, columns, col, hoje, fig>>

Traco == StrCell(<<"-">>)

\* Series.fillna('-') on one cell.
FillTraco(x) == IF x.kind = "nan" THEN Traco ELSE x

\* l.105-110: the history column, created or filled with '-'; return df.
Historico ==
    /\ pc = "historico"
    /\ IF ~HasColumn(columns, "Historico")
       THEN /\ columns' = Append(columns, <<"Historico">>)
            /\ rows' = SetField(rows, "Historico", [i \in 1..Len(rows) |-> Traco])
       ELSE /\ rows' = SetField(rows, "Historico",
                                 [i \in 1..Len(rows) |-> FillTraco(rows[i].Historico)])
            /\ UNCHANGED columns
    /\ col' = NoCol
    /\ pc' = "calculos"
    /\ UNCHANGED <<source, hoje, fig, exc, ui>>

\* The clamp left out: the plain difference.
SaldoSemCorrecao(r) == Sub(r.Valor, r.Pago)

\* l.124-126: df['Valor'] - df['Pago'], then  x if x > 0 else 0.
Saldo_Parcela(r) ==
    LET x == Sub(r.Valor, r.Pago) IN IF Gt(x, <<0>>) THEN x ELSE <<0>>

WithSaldo(rs) ==
    [i \in 1..Len(rs) |->
        [idx |-> rs[i].idx, Data |-> rs[i].Data, Valor |-> rs[i].Valor,
         Pago |-> rs[i].Pago, Historico |-> rs[i].Historico,
         Saldo_Parcela |-> Saldo_Parcela(rs[i])]]

\* l.130: df[df['Data'] < hoje]['Saldo_Parcela'].sum()
total_pendente_atraso(rs, h) ==
    Sum(Column(SelectSeq(rs, LAMBDA r : r.Data # NaT /\ r.Data[1] < h), "Saldo_Parcela"))

\* The future bucket with the boundary day left out.
FaturarDepoisDeHoje(rs, h) ==
    Sum(Column(SelectSeq(rs, LAMBDA r : r.Data # NaT /\ r.Data[1] > h), "Saldo_Parcela"))

\* l.133: df[df['Data'] >= hoje]['Saldo_Parcela'].sum()
total_a_faturar(rs, h) ==
    Sum(Column(SelectSeq(rs, LAMBDA r : r.Data # NaT /\ r.Data[1] >= h), "Saldo_Parcela"))

\* The balance taken as contracted minus paid.
SaldoContratadoMenosPago(contratado, pago, atraso, faturar) == Sub(contratado, pago)

\* l.136: saldo_devedor_total = total_pendente_atraso + total_a_faturar
saldo_devedor_total(contratado, pago, atraso, faturar) ==
    IF atraso = NaN \/ faturar = NaN THEN NaN ELSE <<atraso[1] + faturar[1]>>

\* l.139: (total_pago / total_contratado * 100) if total_contratado > 0 else 0,
\* kept to the whole percent.
progresso(contratado, pago) ==
    IF Gt(contratado, <<0>>) THEN <<(pago[1] * 100) \div contratado[1]>> ELSE <<0>>

\* l.115-139: today's date and the business figures.
Calculos ==
    /\ pc = "calculos"
    /\ \E h \in Dates :
          /\ hoje' = h
          /\ rows' = WithSaldo(rows)
          /\ LET contratado == Sum(Column(rows, "Valor"))
                 pago == Sum(Column(rows, "Pago"))
                 atraso == total_pendente_atraso(rows', h)
                 faturar == total_a_faturar(rows', h)
             IN  fig' = [total_contratado |-> contratado,
                         total_pago |-> pago,
                         total_pendente_atraso |-> atraso,
                         total_a_faturar |-> faturar,
                         saldo_devedor_total |->
                             saldo_devedor_total(contratado, pago, atraso, faturar),
                         progresso |-> progresso(contratado, pago)]
    /\ pc' = "dashboard"
    /\ UNCHANGED <<source, columns, col, exc, ui>>

\* l.143-214: title, the four KPI cards, the schedule chart, the pie chart.
Dashboard ==
    /\ pc = "dashboard"
    /\ ui' = ui \o <<"kpis", "cronograma", "pie">>
    /\ pc' = "tabela"
    /\ UNCHANGED <<source, columns, rows, col, hoje, fig, exc>>

cols_order == {"Status", "Historico"}

\* l.217-246: the detail table; df_show[cols_order] needs every listed column.
Tabela ==
    /\ pc = "tabela"
    /\ IF \A name \in cols_order : HasColumn(columns, name)
       THEN /\ ui' = Append(ui, "dataframe")
            /\ pc' = "done"
            /\ UNCHANGED exc
       ELSE Raise(KeyError("Status", 232))
    /\ UNCHANGED <<source, columns, rows, col, hoje, fig>>

Next ==
    \/ ReadExcel(Files)
    \/ ReadCsv(Files)
    \/ MapeamentoAutomatico
    \/ TratamentoValor
    \/ TratamentoPago
    \/ Datas
    \/ Historico
    \/ Calculos
    \/ Dashboard
    \/ Tabela

Spec == Init /\ [][Next]_vars

\* The same script over files that vary one amount cell.
NextParse ==
    \/ ReadExcel(ParseFiles)
    \/ ReadCsv(ParseFiles)
    \/ MapeamentoAutomatico
    \/ TratamentoValor
    \/ TratamentoPago
    \/ Datas
    \/ Historico
    \/ Calculos
    \/ Dashboard
    \/ Tabela

SpecParse == Init /\ [][NextParse]_vars

\* ------------------------------------------------------------ claims
\* The labels the script observes: the header after strip and lower.
Observed == NormalizeColumns(source.labels)

Loaded == pc \notin {"read_excel", "read_csv", "stopped"}

\* col_* are bound: inside load_data, after the mapping.
Mapped == col # NoCol

\* l.97 has completed: at least one column of cells has been cleaned.
CleaningRan ==
    \/ pc \in {"pago", "datas", "historico", "calculos", "dashboard", "tabela", "done"}
    \/ pc = "crashed" /\ exc.line > 97

\* load_data has returned the normalized frame.
Normalized ==
    \/ pc \in {"calculos", "dashboard", "tabela", "done"}
    \/ pc = "crashed" /\ exc.line = 232

\* The business figures have been computed.
Calculated == fig # <<>>

Max(a, b) == IF a >= b THEN a ELSE b

RawValor(r) == source.rows[r.idx + 1].Valor

RawData(r) == source.rows[r.idx + 1].Data

\* C1: when no observed label contains "data" or "vencimento", or none
\* contains "valor", the run halts before any cell cleaning, aggregation or
\* rendering step has run.
C1_HaltsBeforeCleaning ==
    (Loaded /\ pc # "mapeamento"
        /\ \/ ~\E i \in 1..Len(Observed) : IsData(Observed[i])
           \/ ~\E i \in 1..Len(Observed) : Contains(Observed[i], "valor"))
    => ~CleaningRan

\* C2: when the labels hold one label containing "valor" and a different label
\* containing "pago", Paid is bound to a "pago" label and Amount to another
\* label, never both to the "pago" label.
C2_PaidAndAmountDistinct ==
    (Mapped /\ \E i, j \in 1..Len(Observed) :
                  /\ i # j
                  /\ Contains(Observed[i], "valor")
                  /\ Contains(Observed[j], "pago"))
    => /\ Contains(col.pago, "pago")
       /\ col.valor # col.pago
       /\ ~Contains(col.valor, "pago")

\* C3: the label bound to Amount never contains a Paid keyword ("pago" or
\* "quitado"): a label with both kinds of keyword goes to Paid.
C3_AmountHasNoPaidKeyword ==
    Mapped => ~Contains(col.valor, "pago") /\ ~Contains(col.valor, "quitado")

\* C4: after normalization every row's amount and paid amount are >= 0.
C4_AmountsNonNegative ==
    Normalized => \A i \in 1..Len(rows) : rows[i].Valor[1] >= 0 /\ rows[i].Pago[1] >= 0

\* C5 as stated: the aggregate total outstanding equals total contracted minus
\* total paid, unclamped.
C5_TotalIsContractedMinusPaid ==
    Calculated => fig.saldo_devedor_total = Sub(fig.total_contratado, fig.total_pago)

RECURSIVE SumClamped(_)
SumClamped(rs) ==
    IF rs = <<>> THEN 0
    ELSE Max(rs[1].Valor[1] - rs[1].Pago[1], 0) + SumClamped(Tail(rs))

Overpaid(r) == r.Pago[1] > r.Valor[1]

\* C5 as amended: the aggregate total outstanding is the overdue plus the
\* upcoming outstanding, that is the sum of the per-row clamped outstanding
\* amounts; it is never negative, never below total contracted minus total
\* paid, and strictly above it when a row is overpaid.
C5_TotalIsSumOfClampedRows ==
    Calculated =>
        /\ fig.saldo_devedor_total = <<SumClamped(rows)>>
        /\ fig.saldo_devedor_total[1] >= 0
        /\ fig.saldo_devedor_total[1] >= fig.total_contratado[1] - fig.total_pago[1]
        /\ (\E i \in 1..Len(rows) : Overpaid(rows[i]))
              => fig.saldo_devedor_total[1] > fig.total_contratado[1] - fig.total_pago[1]

C5_Witness ==
    /\ Calculated
    /\ \E i, j \in 1..Len(rows) : Overpaid(rows[i]) /\ rows[j].Pago[1] < rows[j].Valor[1]
    /\ fig.saldo_devedor_total[1] > fig.total_contratado[1] - fig.total_pago[1]

\* C6: with no status label and the date, amount and paid columns present, the
\* run never stops on an error and the normalized frame has a status column.
C6_MissingStatusAbsorbed ==
    (Loaded /\ pc # "mapeamento"
        /\ HasColumn(columns, "Data") /\ HasColumn(columns, "Valor")
        /\ HasColumn(columns, "Pago")
        /\ ~\E i \in 1..Len(Observed) : IsStatus(Observed[i]))
    => /\ pc # "crashed"
       /\ Normalized => HasColumn(columns, "Status")

\* C7: every row's outstanding amount is max(amount - paid, 0), so it is >= 0,
\* and exactly 0 on an overpaid row.
C7_OutstandingClamped ==
    Calculated =>
        \A i \in 1..Len(rows) :
            /\ rows[i].Saldo_Parcela = <<Max(rows[i].Valor[1] - rows[i].Pago[1], 0)>>
            /\ rows[i].Saldo_Parcela[1] >= 0
            /\ Overpaid(rows[i]) => rows[i].Saldo_Parcela = <<0>>

C7_Witness ==
    /\ Calculated
    /\ \E i, j \in 1..Len(rows) :
          /\ Overpaid(rows[i]) /\ rows[i].Saldo_Parcela = <<0>>
          /\ rows[j].Saldo_Parcela[1] > 0

DateParses(x) == x.kind = "date"

\* Once l.101-102 have run.
DatesDone == pc = "historico" \/ Normalized

\* C9: the normalized rows are exactly the input rows whose date cell parses
\* (the others are dropped, no error raised), each with a non-null due date,
\* sorted ascending by due date.
C9_ParsedRowsSorted ==
    /\ HasColumn(columns, "Data") => ~(pc = "crashed" /\ exc.line = 101)
    /\ DatesDone =>
          /\ \A i \in 1..Len(rows) : rows[i].Data # NaT
          /\ \A i \in 1..Len(rows) : rows[i].Data = <<RawData(rows[i]).v>>
          /\ \A i, j \in 1..Len(rows) : i # j => rows[i].idx # rows[j].idx
          /\ {rows[i].idx : i \in 1..Len(rows)}
                = {k - 1 : k \in {n \in 1..Len(source.rows) : DateParses(source.rows[n].Data)}}
          /\ Len(rows) = Len(source.rows)
                - Cardinality({n \in 1..Len(source.rows) : ~DateParses(source.rows[n].Data)})
          /\ \A i, j \in 1..Len(rows) : i < j => rows[i].Data[1] <= rows[j].Data[1]

C9_Witness ==
    /\ DatesDone
    /\ \E m, n \in 1..Len(source.rows) :
          /\ m < n
          /\ DateParses(source.rows[m].Data) /\ DateParses(source.rows[n].Data)
          /\ source.rows[m].Data.v > source.rows[n].Data.v
    /\ \E n \in 1..Len(source.rows) : ~DateParses(source.rows[n].Data)
    /\ Len(rows) = Len(source.rows) - 1
    /\ rows[1].idx > rows[2].idx

\* The text left by to_float's three replacements does not read as a number.
Unparseable(x) ==
    x.kind = "str" /\ ParseText(CommaToDot(RemoveDots(RemoveCurrency(x.s)))) = NaN

\* l.97 has run on the amount column.
ValorDone == CleaningRan

\* C10: the money parser never raises and gives a number for every cell; text
\* that does not parse ("", "-", "a", ...) gives exactly 0, and the rows after
\* it are still processed.
C10_ParserTotalAndZeroOnFailure ==
    /\ ~(pc = "crashed" /\ exc.line = 97 /\ HasColumn(columns, "Valor"))
    /\ ValorDone =>
          \A i \in 1..Len(rows) :
              /\ rows[i].Valor # NaN
              /\ Unparseable(RawValor(rows[i])) => rows[i].Valor = <<0>>
              /\ RawValor(rows[i]) \in {StrCell(<<>>), StrCell(<<"-">>), StrCell(<<"a">>)}
                    => rows[i].Valor = <<0>>
              /\ RawValor(rows[i]) = NumCell(2) => rows[i].Valor = <<2 * Scale>>

C10_Witness ==
    /\ pc = "done"
    /\ \E i, j \in 1..Len(rows) :
          /\ RawValor(rows[i]) = StrCell(<<"-">>) /\ rows[i].Valor = <<0>>
          /\ rows[j].idx > rows[i].idx /\ rows[j].Valor = <<2 * Scale>>

====
